---------------------------- MODULE Spec2Model ----------------------------
(***************************************************************************)
(* A model of hl7_siu_parser: the newline normaliser, the message          *)
(* splitter, the message parser, the addressing engine (get_field,         *)
(* get_component, unescape_hl7), the timestamp parser and renderer, the    *)
(* SIU^S12 extractor and the batch driver (cli.main).                      *)
(*                                                                         *)
(* A Python str is a sequence of characters; a character is a one-letter   *)
(* TLA+ string, or "U+" and its code point in hexadecimal when a TLA+      *)
(* string cannot hold it, or "BOM" for the byte-order mark U+FEFF.  The    *)
(* empty str is << >>; a separator of a Separators object is a character,  *)
(* or "" when it is the empty str.  A call's outcome is a record: kind     *)
(* "ok" with its value, or kind "raise" with the name of the exception     *)
(* class.                                                                  *)
(*                                                                         *)
(* A local of the code that is read more than once is a parameter of a     *)
(* helper operator here, so a function of the code is often a short chain  *)
(* of operators, each continuing where the previous one stopped.           *)
(***************************************************************************)
EXTENDS Integers, Sequences, FiniteSets, TLC

VARIABLES
    pc,         \* position of the running entry point
    argv,       \* cli.main: its argument
    file,       \* cli.main: the input file, as the file system holds it
    raised,     \* cli.main: the exception that left it, if one did
    raw,        \* cli.main: the text read from the input file;
                \* split_messages: its argument
    msgs,       \* the list split_messages returned
    i,          \* cli.main: the number of messages the loop has finished
    exit_code,  \* cli.main: exit_code
    emitted,    \* cli.main: what was printed, in order (stdout and stderr)
    message,    \* parse_message: its argument
    msg,        \* the HL7Message under inspection
    appt,       \* outcome of parse_siu_s12_appointment(msg)
    args,       \* arguments of a get_field / get_component call
    ret,        \* outcome of that call
    value,      \* argument of the timestamp / date parser
    iso         \* outcome of parsing and rendering value

vars == <<pc, argv, file, raised, raw, msgs, i, exit_code, emitted, message, msg,
          appt, args, ret, value, iso>>

\* The value of a variable that the running entry point does not use.
Idle == "idle"

-----------------------------------------------------------------------------
(* Characters and str helpers                                              *)

CR == "\r"
LF == "\n"
\* "\ufeff", the byte order mark
BOM == "BOM"

\* The characters str.strip() removes: those for which str.isspace() holds.  A
\* character that has no escape in a string is written "U+" and its code point
\* in hexadecimal (the byte order mark apart).
Whitespace ==
    {"\t", "\n", "U+000B", "\f", "\r", "U+001C", "U+001D", "U+001E", "U+001F",
     " ", "U+0085", "U+00A0", "U+1680", "U+2000", "U+2001", "U+2002",
     "U+2003", "U+2004", "U+2005", "U+2006", "U+2007", "U+2008", "U+2009",
     "U+200A", "U+2028", "U+2029", "U+202F", "U+205F", "U+3000"}

Ok(v) == [kind |-> "ok", value |-> v]
Raise(e) == [kind |-> "raise", exc |-> e]

\* The exception classes deriving from HL7Error.
HL7Error == {"HL7ParseError", "UnsupportedMessageType", "MissingSegment"}

\* s.startswith(p)
StartsWith(s, p) == Len(s) >= Len(p) /\ SubSeq(s, 1, Len(p)) = p

\* s[a:] for a >= 0 (0-based, as in Python)
From(s, a) == SubSeq(s, a + 1, Len(s))

\* s[a:b] for 0 <= a, 0 <= b (0-based, end exclusive, clipped to the length)
Slice(s, a, b) == SubSeq(s, a + 1, IF b < Len(s) THEN b ELSE Len(s))

\* bool(s.strip()) is False
IsBlank(s) == \A k \in 1..Len(s) : s[k] \in Whitespace

\* The least element of a set of positions, or 0 if it is empty.
MinOrZero(S) == IF S = {} THEN 0 ELSE CHOOSE k \in S : \A j \in S : k <= j

\* s.find(sub, a - 1) + 1: the first position at or after a (1-based) where
\* sub occurs in s, or 0 if there is none.
Find(s, sub, a) ==
    MinOrZero({k \in a..(Len(s) - Len(sub) + 1) : SubSeq(s, k, k + Len(sub) - 1) = sub})

\* s.split(sep) for a one-character sep, from position a on, where k is the
\* first position of sep at or after a (0: none).  Empty pieces are kept and
\* the list is never empty.
RECURSIVE SplitFrom(_, _, _)
SplitAt(s, sep, a, k) ==
    IF k = 0 THEN <<SubSeq(s, a, Len(s))>>
    ELSE <<SubSeq(s, a, k - 1)>> \o SplitFrom(s, sep, k + 1)

SplitFrom(s, sep, a) == SplitAt(s, sep, a, Find(s, <<sep>>, a))

\* s.split(sep)
Split(s, sep) == SplitFrom(s, sep, 1)

\* s.replace(old, new), old non-empty, where k is the first position of old
\* (0: none): the occurrences are taken left to right and do not overlap.
RECURSIVE Replace(_, _, _)
ReplaceAt(s, old, new, k) ==
    IF k = 0 THEN s
    ELSE SubSeq(s, 1, k - 1) \o new \o Replace(From(s, k + Len(old) - 1), old, new)

\* s.replace(old, new)
Replace(s, old, new) == ReplaceAt(s, old, new, Find(s, old, 1))

\* sep.join(parts)
RECURSIVE Join(_, _)
Join(parts, sep) ==
    IF parts = << >> THEN << >>
    ELSE IF Len(parts) = 1 THEN parts[1]
    ELSE parts[1] \o sep \o Join(Tail(parts), sep)

\* [x for x in xs if x.strip()]
RECURSIVE DropBlank(_)
DropBlank(xs) ==
    IF xs = << >> THEN << >>
    ELSE (IF IsBlank(Head(xs)) THEN << >> ELSE <<Head(xs)>>) \o DropBlank(Tail(xs))

\* [x for x in xs if x]
RECURSIVE DropEmpty(_)
DropEmpty(xs) ==
    IF xs = << >> THEN << >>
    ELSE (IF Head(xs) = << >> THEN << >> ELSE <<Head(xs)>>) \o DropEmpty(Tail(xs))

\* The concatenation of a list of strs.
RECURSIVE Concat(_)
Concat(xs) == IF xs = << >> THEN << >> ELSE Head(xs) \o Concat(Tail(xs))

\* s.lstrip(), s.rstrip(), s.strip()
RECURSIVE LStrip(_)
LStrip(s) == IF s # << >> /\ Head(s) \in Whitespace THEN LStrip(Tail(s)) ELSE s

RECURSIVE RStrip(_)
RStrip(s) ==
    IF s # << >> /\ s[Len(s)] \in Whitespace THEN RStrip(SubSeq(s, 1, Len(s) - 1)) ELSE s

Strip(s) == RStrip(LStrip(s))

-----------------------------------------------------------------------------
(* hl7.py: normalize_newlines, split_messages                              *)

\* raw.lstrip(BOM): every leading byte-order mark goes.
RECURSIVE LStripBOM(_)
LStripBOM(s) ==
    IF s # << >> /\ Head(s) = BOM THEN LStripBOM(Tail(s)) ELSE s

\* raw.replace("\r\n", "\r").replace("\n", "\r").lstrip(BOM)
normalize_newlines(s) ==
    LStripBOM(Replace(Replace(s, <<CR, LF>>, <<CR>>), <<LF>>, <<CR>>))

\* [s for s in raw.split("\r") if s.strip()]
SegmentLines(s) == DropBlank(Split(s, CR))

MSH == <<"M", "S", "H">>

\* [i for i, seg in enumerate(segments) if seg.startswith("MSH")], 1-based
RECURSIVE MshIndexesFrom(_, _)
MshIndexesFrom(segments, k) ==
    IF k > Len(segments) THEN << >>
    ELSE (IF StartsWith(segments[k], MSH) THEN <<k>> ELSE << >>)
         \o MshIndexesFrom(segments, k + 1)

msh_indexes(segments) == MshIndexesFrom(segments, 1)

\* MessageAt with the slice taken through the next header line instead of up
\* to the line before it.
MessageAtThroughNextHeader(segments, idxs, idx) ==
    Join(SubSeq(segments, idxs[idx],
                IF idx + 1 <= Len(idxs) THEN idxs[idx + 1] ELSE Len(segments)),
         <<CR>>) \o <<CR>>

\* MessageAt without the "\r" after the last line.
MessageAtUnterminated(segments, idxs, idx) ==
    Join(SubSeq(segments, idxs[idx],
                IF idx + 1 <= Len(idxs) THEN idxs[idx + 1] - 1 ELSE Len(segments)),
         <<CR>>)

\* The message that starts at the idx-th header: the lines from that header up
\* to the line before the next header (or the last line), joined by "\r",
\* with a trailing "\r".
MessageAt(segments, idxs, idx) ==
    Join(SubSeq(segments, idxs[idx],
                IF idx + 1 <= Len(idxs) THEN idxs[idx + 1] - 1 ELSE Len(segments)),
         <<CR>>) \o <<CR>>

\* The loop over msh_indexes.
Messages(segments, idxs) == [idx \in 1..Len(idxs) |-> MessageAt(segments, idxs, idx)]

\* split_messages once segments is known.
MessagesOf(segments) == Messages(segments, msh_indexes(segments))

split_messages(s) == MessagesOf(SegmentLines(normalize_newlines(s)))

-----------------------------------------------------------------------------
(* hl7.py: parse_message                                                   *)

\* The fallback encoding characters "^~\&".
DefaultEnc == <<"^", "~", "\\", "&">>

\* enc[k] if len(enc) > k else the fallback (k is 0-based)
EncChar(enc, k) == IF Len(enc) > k THEN enc[k + 1] ELSE DefaultEnc[k + 1]

\* enc, from the header line split by the field separator
EncOf(msh_parts) ==
    IF Len(msh_parts) < 2 \/ msh_parts[2] = << >> THEN DefaultEnc ELSE msh_parts[2]

SeparatorsOf(field_sep, enc) ==
    [field        |-> field_sep,
     component    |-> EncChar(enc, 0),
     repetition   |-> EncChar(enc, 1),
     escape       |-> EncChar(enc, 2),
     subcomponent |-> EncChar(enc, 3)]

\* The Separators the header line declares.
HeaderSeparators(header) == SeparatorsOf(header[4], EncOf(Split(header, header[4])))

\* segments.setdefault(name, []).append(fields); a dict is a function whose
\* domain is its set of keys.
AddOccurrence(segments, name, fields) ==
    IF name \in DOMAIN segments
    THEN [segments EXCEPT ![name] = Append(@, fields)]
    ELSE segments @@ (name :> <<fields>>)

\* The field list of one segment line, split into parts.
FieldsOf(line, field_sep, parts) ==
    IF Slice(line, 0, 3) = MSH
    THEN <<MSH, <<field_sep>>>> \o Tail(parts)
    ELSE parts

LineFields(line, field_sep) == FieldsOf(line, field_sep, Split(line, field_sep))

\* One turn of the loop over seg_lines.
AddLine(segments, line, field_sep) ==
    IF Len(line) < 3 THEN segments
    ELSE AddOccurrence(segments, Slice(line, 0, 3), LineFields(line, field_sep))

\* The loop over seg_lines, from line k on, that fills the segments dict.
RECURSIVE CollectSegments(_, _, _, _)
CollectSegments(seg_lines, k, field_sep, segments) ==
    IF k > Len(seg_lines) THEN segments
    ELSE CollectSegments(seg_lines, k + 1, field_sep,
                         AddLine(segments, seg_lines[k], field_sep))

MessageOf(seg_lines, seps) ==
    [seps |-> seps, segments |-> CollectSegments(seg_lines, 1, seps.field, << >>)]

\* parse_message once seg_lines is known.
ParseLines(seg_lines) ==
    IF seg_lines = << >> \/ ~StartsWith(seg_lines[1], MSH)
    THEN Raise("HL7ParseError")
    ELSE IF Len(seg_lines[1]) < 4
    THEN Raise("HL7ParseError")
    ELSE Ok(MessageOf(seg_lines, HeaderSeparators(seg_lines[1])))

parse_message(text) == ParseLines(SegmentLines(normalize_newlines(text)))

-----------------------------------------------------------------------------
(* hl7.py: unescape_hl7.  The escape separator is one character (enc[2] or *)
(* the fallback, in a message of parse_message) or the empty str.          *)

\* _ESCAPE_MAP_KEYS
EscapeCodes == {"F", "S", "R", "E", "T"}

\* A separator as a str.
StrOf(c) == IF c = "" THEN << >> ELSE <<c>>

\* getattr(seps, _ESCAPE_MAP_KEYS[code])
EscapeTarget(code, seps) ==
    StrOf(CASE code = "F" -> seps.field
            [] code = "S" -> seps.component
            [] code = "R" -> seps.repetition
            [] code = "E" -> seps.escape
            [] code = "T" -> seps.subcomponent)

\* repl(m): the replacement of the match s[1..j], whose group 1 is s[2..j-1].
Repl(s, j, seps) ==
    IF j = 3 /\ s[2] \in EscapeCodes
    THEN EscapeTarget(s[2], seps)
    ELSE SubSeq(s, 1, j)

\* The match of esc(.+?)esc that starts at s[1] ends at j, the first escape
\* character at or after s[3] (0: none), unless a "\n", which "." does not
\* match, lies before it.
MatchEndAt(s, j) ==
    IF j = 0 THEN 0
    ELSE IF \E k \in 2..(j - 1) : s[k] = LF THEN 0
    ELSE j

\* Where the match that starts at s[1] ends, or 0 if there is none.
MatchEnd(s, esc) == MatchEndAt(s, MinOrZero({j \in 3..Len(s) : s[j] = esc}))

\* pattern.sub(repl, value): the matches are taken left to right and do not
\* overlap; j is where the match starting at s[1] ends (0: none).
RECURSIVE SubEscapes(_, _)
SubEscapesAt(s, seps, j) ==
    IF j = 0
    THEN <<Head(s)>> \o SubEscapes(Tail(s), seps)
    ELSE Repl(s, j, seps) \o SubEscapes(From(s, j), seps)

SubEscapes(s, seps) ==
    IF s = << >> THEN << >>
    ELSE SubEscapesAt(s, seps,
                      IF Head(s) = seps.escape THEN MatchEnd(s, seps.escape) ELSE 0)

\* pattern.sub(repl, value) when seps.escape is "": the pattern is "(.+?)", so
\* every character but "\n" is a match and its own group 1; a "\n" stays.
SubEachCharacter(s, seps) ==
    Concat([k \in 1..Len(s) |->
               IF s[k] \in EscapeCodes THEN EscapeTarget(s[k], seps) ELSE <<s[k]>>])

\* "seps.escape not in value" is False when seps.escape is "".
unescape_hl7(s, seps) ==
    IF s = << >> THEN s
    ELSE IF seps.escape = "" THEN SubEachCharacter(s, seps)
    ELSE IF ~(\E k \in 1..Len(s) : s[k] = seps.escape) THEN s
    ELSE SubEscapes(s, seps)

-----------------------------------------------------------------------------
(* hl7.py: HL7Message.get_field, HL7Message.get_component                  *)

\* xs[k] can be read without IndexError (Python: -len(xs) <= k < len(xs))
InRange(xs, k) == -Len(xs) <= k /\ k < Len(xs)

\* xs[k] for a Python index k in range: a negative k counts from the end.
PyIndex(xs, k) == IF k >= 0 THEN xs[k + 1] ELSE xs[Len(xs) + k + 1]

\* v or default
OrDefault(v, default) == IF v = << >> THEN default ELSE v

\* get_field from fields = occs[seg_index] on.
FieldOf(fields, field_num, default) ==
    IF field_num >= Len(fields) THEN Ok(default)
    ELSE IF ~InRange(fields, field_num) THEN Raise("IndexError")
    ELSE Ok(OrDefault(PyIndex(fields, field_num), default))

\* get_field from occs = self.segments.get(seg) on, occs not None.
FieldOfOccs(occs, field_num, seg_index, default) ==
    IF occs = << >> \/ seg_index >= Len(occs) THEN Ok(default)
    ELSE IF ~InRange(occs, seg_index) THEN Raise("IndexError")
    ELSE FieldOf(PyIndex(occs, seg_index), field_num, default)

get_field(m, seg, field_num, seg_index, default) ==
    IF seg \notin DOMAIN m.segments THEN Ok(default)
    ELSE FieldOfOccs(m.segments[seg], field_num, seg_index, default)

\* raw.split(sep) if sep else [raw]
SplitIf(s, sep) == IF sep # "" THEN Split(s, sep) ELSE <<s>>

\* get_component from comps on.
ComponentOfComps(m, comps, comp_num, default) ==
    IF comp_num <= 0 THEN Ok(default)
    ELSE IF comp_num - 1 >= Len(comps) THEN Ok(default)
    ELSE Ok(OrDefault(unescape_hl7(comps[comp_num], m.seps), default))

\* get_component from reps on.
ComponentOfReps(m, reps, comp_num, rep_index, default) ==
    IF rep_index >= Len(reps) THEN Ok(default)
    ELSE IF ~InRange(reps, rep_index) THEN Raise("IndexError")
    ELSE ComponentOfComps(m, SplitIf(PyIndex(reps, rep_index), m.seps.component),
                          comp_num, default)

\* get_component once get_field has returned r.
ComponentOf(m, r, comp_num, rep_index, default) ==
    IF r.kind = "raise" THEN r
    ELSE IF r.value = << >> THEN Ok(default)
    ELSE ComponentOfReps(m, SplitIf(r.value, m.seps.repetition),
                         comp_num, rep_index, default)

get_component(m, seg, field_num, comp_num, seg_index, rep_index, default) ==
    ComponentOf(m, get_field(m, seg, field_num, seg_index, default),
                comp_num, rep_index, default)

-----------------------------------------------------------------------------
(* hl7.py: _TS_RE, parse_hl7_date, parse_hl7_ts_to_datetime, to_iso8601_z  *)

\* The digits str() and isoformat() write.
AsciiDigits == <<"0", "1", "2", "3", "4", "5", "6", "7", "8", "9">>

\* The characters "\d" matches and int() reads, which are the decimal digits
\* of every script: Digits[d + 1] holds those of value d.
Digits ==
    <<{"0", "U+0660", "U+06F0", "U+07C0", "U+0966", "U+09E6", "U+0A66",
      "U+0AE6", "U+0B66", "U+0BE6", "U+0C66", "U+0CE6", "U+0D66", "U+0DE6",
      "U+0E50", "U+0ED0", "U+0F20", "U+1040", "U+1090", "U+17E0", "U+1810",
      "U+1946", "U+19D0", "U+1A80", "U+1A90", "U+1B50", "U+1BB0", "U+1C40",
      "U+1C50", "U+A620", "U+A8D0", "U+A900", "U+A9D0", "U+A9F0", "U+AA50",
      "U+ABF0", "U+FF10", "U+104A0", "U+10D30", "U+11066", "U+110F0",
      "U+11136", "U+111D0", "U+112F0", "U+11450", "U+114D0", "U+11650",
      "U+116C0", "U+11730", "U+118E0", "U+11950", "U+11C50", "U+11D50",
      "U+11DA0", "U+16A60", "U+16AC0", "U+16B50", "U+1D7CE", "U+1D7D8",
      "U+1D7E2", "U+1D7EC", "U+1D7F6", "U+1E140", "U+1E2F0", "U+1E950",
      "U+1FBF0"},
     {"1", "U+0661", "U+06F1", "U+07C1", "U+0967", "U+09E7", "U+0A67",
      "U+0AE7", "U+0B67", "U+0BE7", "U+0C67", "U+0CE7", "U+0D67", "U+0DE7",
      "U+0E51", "U+0ED1", "U+0F21", "U+1041", "U+1091", "U+17E1", "U+1811",
      "U+1947", "U+19D1", "U+1A81", "U+1A91", "U+1B51", "U+1BB1", "U+1C41",
      "U+1C51", "U+A621", "U+A8D1", "U+A901", "U+A9D1", "U+A9F1", "U+AA51",
      "U+ABF1", "U+FF11", "U+104A1", "U+10D31", "U+11067", "U+110F1",
      "U+11137", "U+111D1", "U+112F1", "U+11451", "U+114D1", "U+11651",
      "U+116C1", "U+11731", "U+118E1", "U+11951", "U+11C51", "U+11D51",
      "U+11DA1", "U+16A61", "U+16AC1", "U+16B51", "U+1D7CF", "U+1D7D9",
      "U+1D7E3", "U+1D7ED", "U+1D7F7", "U+1E141", "U+1E2F1", "U+1E951",
      "U+1FBF1"},
     {"2", "U+0662", "U+06F2", "U+07C2", "U+0968", "U+09E8", "U+0A68",
      "U+0AE8", "U+0B68", "U+0BE8", "U+0C68", "U+0CE8", "U+0D68", "U+0DE8",
      "U+0E52", "U+0ED2", "U+0F22", "U+1042", "U+1092", "U+17E2", "U+1812",
      "U+1948", "U+19D2", "U+1A82", "U+1A92", "U+1B52", "U+1BB2", "U+1C42",
      "U+1C52", "U+A622", "U+A8D2", "U+A902", "U+A9D2", "U+A9F2", "U+AA52",
      "U+ABF2", "U+FF12", "U+104A2", "U+10D32", "U+11068", "U+110F2",
      "U+11138", "U+111D2", "U+112F2", "U+11452", "U+114D2", "U+11652",
      "U+116C2", "U+11732", "U+118E2", "U+11952", "U+11C52", "U+11D52",
      "U+11DA2", "U+16A62", "U+16AC2", "U+16B52", "U+1D7D0", "U+1D7DA",
      "U+1D7E4", "U+1D7EE", "U+1D7F8", "U+1E142", "U+1E2F2", "U+1E952",
      "U+1FBF2"},
     {"3", "U+0663", "U+06F3", "U+07C3", "U+0969", "U+09E9", "U+0A69",
      "U+0AE9", "U+0B69", "U+0BE9", "U+0C69", "U+0CE9", "U+0D69", "U+0DE9",
      "U+0E53", "U+0ED3", "U+0F23", "U+1043", "U+1093", "U+17E3", "U+1813",
      "U+1949", "U+19D3", "U+1A83", "U+1A93", "U+1B53", "U+1BB3", "U+1C43",
      "U+1C53", "U+A623", "U+A8D3", "U+A903", "U+A9D3", "U+A9F3", "U+AA53",
      "U+ABF3", "U+FF13", "U+104A3", "U+10D33", "U+11069", "U+110F3",
      "U+11139", "U+111D3", "U+112F3", "U+11453", "U+114D3", "U+11653",
      "U+116C3", "U+11733", "U+118E3", "U+11953", "U+11C53", "U+11D53",
      "U+11DA3", "U+16A63", "U+16AC3", "U+16B53", "U+1D7D1", "U+1D7DB",
      "U+1D7E5", "U+1D7EF", "U+1D7F9", "U+1E143", "U+1E2F3", "U+1E953",
      "U+1FBF3"},
     {"4", "U+0664", "U+06F4", "U+07C4", "U+096A", "U+09EA", "U+0A6A",
      "U+0AEA", "U+0B6A", "U+0BEA", "U+0C6A", "U+0CEA", "U+0D6A", "U+0DEA",
      "U+0E54", "U+0ED4", "U+0F24", "U+1044", "U+1094", "U+17E4", "U+1814",
      "U+194A", "U+19D4", "U+1A84", "U+1A94", "U+1B54", "U+1BB4", "U+1C44",
      "U+1C54", "U+A624", "U+A8D4", "U+A904", "U+A9D4", "U+A9F4", "U+AA54",
      "U+ABF4", "U+FF14", "U+104A4", "U+10D34", "U+1106A", "U+110F4",
      "U+1113A", "U+111D4", "U+112F4", "U+11454", "U+114D4", "U+11654",
      "U+116C4", "U+11734", "U+118E4", "U+11954", "U+11C54", "U+11D54",
      "U+11DA4", "U+16A64", "U+16AC4", "U+16B54", "U+1D7D2", "U+1D7DC",
      "U+1D7E6", "U+1D7F0", "U+1D7FA", "U+1E144", "U+1E2F4", "U+1E954",
      "U+1FBF4"},
     {"5", "U+0665", "U+06F5", "U+07C5", "U+096B", "U+09EB", "U+0A6B",
      "U+0AEB", "U+0B6B", "U+0BEB", "U+0C6B", "U+0CEB", "U+0D6B", "U+0DEB",
      "U+0E55", "U+0ED5", "U+0F25", "U+1045", "U+1095", "U+17E5", "U+1815",
      "U+194B", "U+19D5", "U+1A85", "U+1A95", "U+1B55", "U+1BB5", "U+1C45",
      "U+1C55", "U+A625", "U+A8D5", "U+A905", "U+A9D5", "U+A9F5", "U+AA55",
      "U+ABF5", "U+FF15", "U+104A5", "U+10D35", "U+1106B", "U+110F5",
      "U+1113B", "U+111D5", "U+112F5", "U+11455", "U+114D5", "U+11655",
      "U+116C5", "U+11735", "U+118E5", "U+11955", "U+11C55", "U+11D55",
      "U+11DA5", "U+16A65", "U+16AC5", "U+16B55", "U+1D7D3", "U+1D7DD",
      "U+1D7E7", "U+1D7F1", "U+1D7FB", "U+1E145", "U+1E2F5", "U+1E955",
      "U+1FBF5"},
     {"6", "U+0666", "U+06F6", "U+07C6", "U+096C", "U+09EC", "U+0A6C",
      "U+0AEC", "U+0B6C", "U+0BEC", "U+0C6C", "U+0CEC", "U+0D6C", "U+0DEC",
      "U+0E56", "U+0ED6", "U+0F26", "U+1046", "U+1096", "U+17E6", "U+1816",
      "U+194C", "U+19D6", "U+1A86", "U+1A96", "U+1B56", "U+1BB6", "U+1C46",
      "U+1C56", "U+A626", "U+A8D6", "U+A906", "U+A9D6", "U+A9F6", "U+AA56",
      "U+ABF6", "U+FF16", "U+104A6", "U+10D36", "U+1106C", "U+110F6",
      "U+1113C", "U+111D6", "U+112F6", "U+11456", "U+114D6", "U+11656",
      "U+116C6", "U+11736", "U+118E6", "U+11956", "U+11C56", "U+11D56",
      "U+11DA6", "U+16A66", "U+16AC6", "U+16B56", "U+1D7D4", "U+1D7DE",
      "U+1D7E8", "U+1D7F2", "U+1D7FC", "U+1E146", "U+1E2F6", "U+1E956",
      "U+1FBF6"},
     {"7", "U+0667", "U+06F7", "U+07C7", "U+096D", "U+09ED", "U+0A6D",
      "U+0AED", "U+0B6D", "U+0BED", "U+0C6D", "U+0CED", "U+0D6D", "U+0DED",
      "U+0E57", "U+0ED7", "U+0F27", "U+1047", "U+1097", "U+17E7", "U+1817",
      "U+194D", "U+19D7", "U+1A87", "U+1A97", "U+1B57", "U+1BB7", "U+1C47",
      "U+1C57", "U+A627", "U+A8D7", "U+A907", "U+A9D7", "U+A9F7", "U+AA57",
      "U+ABF7", "U+FF17", "U+104A7", "U+10D37", "U+1106D", "U+110F7",
      "U+1113D", "U+111D7", "U+112F7", "U+11457", "U+114D7", "U+11657",
      "U+116C7", "U+11737", "U+118E7", "U+11957", "U+11C57", "U+11D57",
      "U+11DA7", "U+16A67", "U+16AC7", "U+16B57", "U+1D7D5", "U+1D7DF",
      "U+1D7E9", "U+1D7F3", "U+1D7FD", "U+1E147", "U+1E2F7", "U+1E957",
      "U+1FBF7"},
     {"8", "U+0668", "U+06F8", "U+07C8", "U+096E", "U+09EE", "U+0A6E",
      "U+0AEE", "U+0B6E", "U+0BEE", "U+0C6E", "U+0CEE", "U+0D6E", "U+0DEE",
      "U+0E58", "U+0ED8", "U+0F28", "U+1048", "U+1098", "U+17E8", "U+1818",
      "U+194E", "U+19D8", "U+1A88", "U+1A98", "U+1B58", "U+1BB8", "U+1C48",
      "U+1C58", "U+A628", "U+A8D8", "U+A908", "U+A9D8", "U+A9F8", "U+AA58",
      "U+ABF8", "U+FF18", "U+104A8", "U+10D38", "U+1106E", "U+110F8",
      "U+1113E", "U+111D8", "U+112F8", "U+11458", "U+114D8", "U+11658",
      "U+116C8", "U+11738", "U+118E8", "U+11958", "U+11C58", "U+11D58",
      "U+11DA8", "U+16A68", "U+16AC8", "U+16B58", "U+1D7D6", "U+1D7E0",
      "U+1D7EA", "U+1D7F4", "U+1D7FE", "U+1E148", "U+1E2F8", "U+1E958",
      "U+1FBF8"},
     {"9", "U+0669", "U+06F9", "U+07C9", "U+096F", "U+09EF", "U+0A6F",
      "U+0AEF", "U+0B6F", "U+0BEF", "U+0C6F", "U+0CEF", "U+0D6F", "U+0DEF",
      "U+0E59", "U+0ED9", "U+0F29", "U+1049", "U+1099", "U+17E9", "U+1819",
      "U+194F", "U+19D9", "U+1A89", "U+1A99", "U+1B59", "U+1BB9", "U+1C49",
      "U+1C59", "U+A629", "U+A8D9", "U+A909", "U+A9D9", "U+A9F9", "U+AA59",
      "U+ABF9", "U+FF19", "U+104A9", "U+10D39", "U+1106F", "U+110F9",
      "U+1113F", "U+111D9", "U+112F9", "U+11459", "U+114D9", "U+11659",
      "U+116C9", "U+11739", "U+118E9", "U+11959", "U+11C59", "U+11D59",
      "U+11DA9", "U+16A69", "U+16AC9", "U+16B59", "U+1D7D7", "U+1D7E1",
      "U+1D7EB", "U+1D7F5", "U+1D7FF", "U+1E149", "U+1E2F9", "U+1E959",
      "U+1FBF9"}>>

\* "\d" matches c
IsDigit(c) == \E d \in 1..10 : c \in Digits[d]

\* int(c) for one digit c
DigitVal(c) == (CHOOSE d \in 1..10 : c \in Digits[d]) - 1

\* int(s) for a str of decimal digits
RECURSIVE IntOf(_)
IntOf(s) ==
    IF s = << >> THEN 0
    ELSE IntOf(SubSeq(s, 1, Len(s) - 1)) * 10 + DigitVal(s[Len(s)])

\* The number of leading digits of s.
RECURSIVE DigitRun(_)
DigitRun(s) ==
    IF s # << >> /\ IsDigit(Head(s)) THEN 1 + DigitRun(Tail(s)) ELSE 0

\* None where a date, a datetime or a match is expected.
None == [none |-> TRUE]

(* _TS_RE.match(s): the groups, or None.  A group that took no part in the  *)
(* match is << >>: the code reads a group only through "or" and "if", which *)
(* do not tell None from "", and no group matches "".  After the four-digit *)
(* year the five optional two-digit groups take digits greedily and cannot  *)
(* give any back (what follows them starts with ".", a sign, or the end),   *)
(* then the fraction takes "." and every digit after it, then the offset is *)
(* a sign and four digits.  "$" matches at the end, or before a "\n" that   *)
(* ends the string.                                                         *)

\* The k-th two-digit group after the year.
Group(body, pairs, k) ==
    IF pairs >= k THEN SubSeq(body, 3 + 2 * k, 4 + 2 * k) ELSE << >>

Groups(body, pairs, frac, tz) ==
    [yyyy |-> SubSeq(body, 1, 4),
     mm |-> Group(body, pairs, 1), dd |-> Group(body, pairs, 2),
     hh |-> Group(body, pairs, 3), mi |-> Group(body, pairs, 4),
     ss |-> Group(body, pairs, 5),
     fraction |-> frac,
     tz |-> tz]

\* [+-]\d{4}
IsTz(s) == Len(s) = 5 /\ s[1] \in {"+", "-"} /\ \A k \in 2..5 : IsDigit(s[k])

\* The match from the offset on: rest2 is what follows the fraction.
MatchTz(body, pairs, frac, rest2) ==
    IF rest2 = << >> THEN Groups(body, pairs, frac, << >>)
    ELSE IF IsTz(rest2) THEN Groups(body, pairs, frac, rest2)
    ELSE None

\* The match from the fraction on: rest follows the digit groups and fracN
\* digits follow its "." (0: no fraction).
MatchFraction(body, pairs, rest, fracN) ==
    IF fracN > 0
    THEN MatchTz(body, pairs, SubSeq(rest, 1, 1 + fracN), From(rest, 1 + fracN))
    ELSE MatchTz(body, pairs, << >>, rest)

MatchRest(body, pairs, rest) ==
    MatchFraction(body, pairs, rest,
                  IF Len(rest) >= 2 /\ rest[1] = "." THEN DigitRun(Tail(rest)) ELSE 0)

\* The match of a body that starts with run digits.
MatchRun(body, run) ==
    IF run < 4 \/ run > 14 \/ run % 2 = 1 THEN None
    ELSE MatchRest(body, (run - 4) \div 2, From(body, run))

TsMatch(s) ==
    IF s # << >> /\ s[Len(s)] = LF
    THEN MatchRun(SubSeq(s, 1, Len(s) - 1), DigitRun(s))
    ELSE MatchRun(s, DigitRun(s))

\* int(m.group(g) or dflt)
GroupInt(g, dflt) == IF g = << >> THEN dflt ELSE IntOf(g)

IsLeap(y) == y % 4 = 0 /\ (y % 100 # 0 \/ y % 400 = 0)

DaysInMonth(y, m) ==
    IF m = 2 THEN (IF IsLeap(y) THEN 29 ELSE 28)
    ELSE IF m \in {4, 6, 9, 11} THEN 30 ELSE 31

\* datetime.MINYEAR, datetime.MAXYEAR
MinYear == 1
MaxYear == 9999

\* date(y, m, d) raises ValueError
BadDate(y, m, d) ==
    \/ y < MinYear \/ y > MaxYear
    \/ m < 1 \/ m > 12
    \/ d < 1 \/ d > DaysInMonth(y, m)

\* "%0*d" % (width, n): decimal digits, zero-padded on the left to width.
RECURSIVE Pad(_, _)
Pad(n, width) ==
    IF width <= 1 /\ n < 10 THEN <<AsciiDigits[n + 1]>>
    ELSE Pad(n \div 10, width - 1) \o <<AsciiDigits[(n % 10) + 1]>>

\* date.isoformat()
DateIso(y, m, d) == Pad(y, 4) \o <<"-">> \o Pad(m, 2) \o <<"-">> \o Pad(d, 2)

\* date(yyyy, mm, dd)
MakeDate(yyyy, mm, dd) ==
    IF BadDate(yyyy, mm, dd) THEN Raise("ValueError")
    ELSE Ok([year |-> yyyy, month |-> mm, day |-> dd])

\* parse_hl7_date once m = _TS_RE.match(value) is known.
DateOfMatch(m) ==
    IF m = None THEN Ok(None)
    ELSE MakeDate(IntOf(m.yyyy), GroupInt(m.mm, 1), GroupInt(m.dd, 1))

parse_hl7_date(s) == IF s = << >> THEN Ok(None) ELSE DateOfMatch(TsMatch(s))

\* (frac_digits + "000000")[:6] as an int
Micro(frac) ==
    IF frac = << >> THEN 0
    ELSE IntOf(Slice(Tail(frac) \o <<"0", "0", "0", "0", "0", "0">>, 0, 6))

\* The offset east of UTC in minutes that tz declares: sign * (hours, minutes).
OffsetMinutes(tz) ==
    IF tz = << >> THEN 0
    ELSE (IF tz[1] = "+" THEN 1 ELSE -1)
         * (IntOf(SubSeq(tz, 2, 3)) * 60 + IntOf(SubSeq(tz, 4, 5)))

MinutesPerDay == 1440

\* timezone(offset), which wants the offset strictly inside a day, then
\* datetime(yyyy, mm, dd, hh, mi, ss, microsecond=micro, tzinfo=tzinfo)
MakeDatetime(yyyy, mm, dd, hh, mi, ss, micro, off) ==
    IF off <= -MinutesPerDay \/ off >= MinutesPerDay THEN Raise("ValueError")
    ELSE IF BadDate(yyyy, mm, dd) \/ hh > 23 \/ mi > 59 \/ ss > 59
    THEN Raise("ValueError")
    ELSE Ok([year |-> yyyy, month |-> mm, day |-> dd,
             hour |-> hh, minute |-> mi, second |-> ss,
             microsecond |-> micro, utcoffset |-> off])

\* parse_hl7_ts_to_datetime once m = _TS_RE.match(value) is known.
DatetimeOfMatch(m) ==
    IF m = None THEN Ok(None)
    ELSE MakeDatetime(IntOf(m.yyyy), GroupInt(m.mm, 1), GroupInt(m.dd, 1),
                      GroupInt(m.hh, 0), GroupInt(m.mi, 0), GroupInt(m.ss, 0),
                      Micro(m.fraction), OffsetMinutes(m.tz))

parse_hl7_ts_to_datetime(s) ==
    IF s = << >> THEN Ok(None) ELSE DatetimeOfMatch(TsMatch(s))

\* The days before 1 January of year y, counted from 1 January of year 1.
DaysBeforeYear(y) ==
    (y - 1) * 365 + (y - 1) \div 4 - (y - 1) \div 100 + (y - 1) \div 400

RECURSIVE DaysBeforeMonth(_, _)
DaysBeforeMonth(y, m) ==
    IF m = 1 THEN 0 ELSE DaysBeforeMonth(y, m - 1) + DaysInMonth(y, m - 1)

\* date.toordinal(): 1 January of year 1 is day 1.
Ordinal(y, m, d) == DaysBeforeYear(y) + DaysBeforeMonth(y, m) + d

\* The ordinal of 31 December 9999.
MaxOrdinal == 3652059

\* The month of day-of-year n (1-based) of year y, searched from month m.
RECURSIVE MonthOf(_, _, _)
MonthOf(y, n, m) ==
    IF n <= DaysBeforeMonth(y, m) + DaysInMonth(y, m) THEN m ELSE MonthOf(y, n, m + 1)

\* The date of day-of-year n of year y, which falls in month m.
MonthDay(y, n, m) == [year |-> y, month |-> m, day |-> n - DaysBeforeMonth(y, m)]

\* date.fromordinal(n), by the 400-, 100-, 4- and 1-year cycles: n1 years
\* into the 4-year cycle (n100 centuries into the 400-year cycle), day r of
\* year y (0-based).
FromCycles(y, n100, n1, r) ==
    IF n1 = 4 \/ n100 = 4
    THEN [year |-> y - 1, month |-> 12, day |-> 31]
    ELSE MonthDay(y, r + 1, MonthOf(y, r + 1, 1))

From4(y0, n100, r) == FromCycles(y0 + r \div 365 + 1, n100, r \div 365, r % 365)

From100(y0, n100, r) == From4(y0 + (r \div 1461) * 4, n100, r % 1461)

From400(y0, r) == From100(y0 + (r \div 36524) * 100, r \div 36524, r % 36524)

FromOrdinal(n) == From400(((n - 1) \div 146097) * 400, (n - 1) % 146097)

\* dt with the date d and the minute rem of the day, at offset 0.
UtcOf(dt, d, rem) ==
    [dt EXCEPT !.year = d.year, !.month = d.month, !.day = d.day,
               !.hour = rem \div 60, !.minute = rem % 60, !.utcoffset = 0]

\* The instant of dt on day ord at minute rem of the day.
UtcAt(dt, ord, rem) ==
    IF ord < 1 \/ ord > MaxOrdinal THEN Raise("OverflowError")
    ELSE Ok(UtcOf(dt, FromOrdinal(ord), rem))

\* dt moved to the given minute of (or around) its day.
ShiftTo(dt, minute) ==
    UtcAt(dt, Ordinal(dt.year, dt.month, dt.day) + minute \div MinutesPerDay,
          minute % MinutesPerDay)

\* dt.astimezone(timezone.utc): the same instant with offset 0; OverflowError
\* when that instant is outside years 1..9999.
AsUtc(dt) == ShiftTo(dt, dt.hour * 60 + dt.minute - dt.utcoffset)

Abs(n) == IF n < 0 THEN -n ELSE n

\* datetime.isoformat() of an aware datetime
DateTimeIso(dt) ==
    DateIso(dt.year, dt.month, dt.day) \o <<"T">>
    \o Pad(dt.hour, 2) \o <<":">> \o Pad(dt.minute, 2) \o <<":">> \o Pad(dt.second, 2)
    \o (IF dt.microsecond # 0 THEN <<".">> \o Pad(dt.microsecond, 6) ELSE << >>)
    \o <<IF dt.utcoffset < 0 THEN "-" ELSE "+">>
    \o Pad(Abs(dt.utcoffset) \div 60, 2) \o <<":">> \o Pad(Abs(dt.utcoffset) % 60, 2)

\* dt_utc.replace(tzinfo=timezone.utc).isoformat().replace("+00:00", "Z")
RenderUtc(u) ==
    IF u.kind = "raise" THEN u
    ELSE Ok(Replace(DateTimeIso(u.value), <<"+", "0", "0", ":", "0", "0">>, <<"Z">>))

to_iso8601_z(dt) == RenderUtc(AsUtc(dt))

-----------------------------------------------------------------------------
(* siu_s12.py: _first_nonempty, validate_siu_s12, parse_siu_s12_appointment *)

SCH == <<"S", "C", "H">>
PID == <<"P", "I", "D">>
PV1 == <<"P", "V", "1">>
SIU == <<"S", "I", "U">>
S12 == <<"S", "1", "2">>

\* _first_nonempty(*vals)
RECURSIVE first_nonempty(_)
first_nonempty(vals) ==
    IF vals = << >> THEN << >>
    ELSE IF Head(vals) # << >> THEN Head(vals)
    ELSE first_nonempty(Tail(vals))

\* msg.get_field(seg, f, default=""): with seg_index 0 it cannot raise.
Fld(m, seg, f) == get_field(m, seg, f, 0, << >>).value

\* msg.get_component(seg, f, c, default=""): with seg_index 0 and rep_index 0
\* it cannot raise.
Cmp(m, seg, f, c) == get_component(m, seg, f, c, 0, 0, << >>).value

\* " ".join([p for p in parts if p])
JoinNonEmpty(parts) == Join(DropEmpty(parts), <<" ">>)

\* validate_siu_s12 with the test of the second component left out.
validate_message_code(m) == Cmp(m, MSH, 9, 1) = SIU

\* validate_siu_s12 returns (TRUE) or raises UnsupportedMessageType (FALSE).
validate_siu_s12(m) == <<Cmp(m, MSH, 9, 1), Cmp(m, MSH, 9, 2)>> = <<SIU, S12>>

\* dt_raw
DtRaw(m) == first_nonempty(<<Cmp(m, SCH, 11, 4), Cmp(m, SCH, 11, 1), Fld(m, SCH, 11)>>)

\* dob_raw
DobRaw(m) == IF PID \in DOMAIN m.segments THEN Fld(m, PID, 7) ELSE << >>

\* The probe in the order of the field numbers.
ProbeInFieldOrder == <<6, 7, 8, 9>>

\* The order in which the PV1 fields are probed for the provider.
ProviderProbe == <<7, 6, 8, 9>>

\* provider_field: the first probed field with a non-empty raw value, or 0
\* (None in the code) if there is none.
RECURSIVE ProviderField(_, _)
ProviderField(m, probe) ==
    IF probe = << >> THEN 0
    ELSE IF Fld(m, PV1, Head(probe)) # << >> THEN Head(probe)
    ELSE ProviderField(m, Tail(probe))

\* prov_id and prov_name once provider_field is f.
ProviderOf(m, f) ==
    IF f = 0 THEN [id |-> << >>, name |-> << >>]
    ELSE [id   |-> Cmp(m, PV1, f, 1),
          name |-> JoinNonEmpty(<<Cmp(m, PV1, f, 6), Cmp(m, PV1, f, 3),
                                  Cmp(m, PV1, f, 2)>>)]

\* {"id": prov_id, "name": prov_name}
Provider(m) ==
    IF PV1 \in DOMAIN m.segments
    THEN ProviderOf(m, ProviderField(m, ProviderProbe))
    ELSE ProviderOf(m, 0)

Location(m) ==
    IF PV1 \in DOMAIN m.segments
    THEN Strip(JoinNonEmpty(<<Cmp(m, PV1, 3, 4), Cmp(m, PV1, 3, 1),
                              Cmp(m, PV1, 3, 2), Cmp(m, PV1, 3, 3)>>))
    ELSE << >>

Reason(m) ==
    first_nonempty(<<Cmp(m, SCH, 7, 2), Cmp(m, SCH, 7, 1), Fld(m, SCH, 7),
                     Cmp(m, SCH, 8, 2), Cmp(m, SCH, 8, 1), Fld(m, SCH, 8),
                     Cmp(m, SCH, 6, 2), Cmp(m, SCH, 6, 1), Fld(m, SCH, 6)>>)

\* dob.isoformat() if dob else ""
DobIso(dob) == IF dob = None THEN << >> ELSE DateIso(dob.year, dob.month, dob.day)

\* The patient sub-record when there is a PID segment.
PatientPresent(m, dob) ==
    [id         |-> first_nonempty(<<Cmp(m, PID, 3, 1), Cmp(m, PID, 2, 1),
                                     Fld(m, PID, 3)>>),
     first_name |-> Cmp(m, PID, 5, 2),
     last_name  |-> Cmp(m, PID, 5, 1),
     dob        |-> DobIso(dob),
     gender     |-> Fld(m, PID, 8)]

Patient(m, dob) ==
    IF PID \in DOMAIN m.segments
    THEN PatientPresent(m, dob)
    ELSE [id |-> << >>, first_name |-> << >>, last_name |-> << >>,
          dob |-> DobIso(dob), gender |-> << >>]

\* The record, once the appointment start (an ISO str) and the date of birth
\* (a date or None) are known.
Record(m, appt_datetime_iso, dob) ==
    [appointment_id       |-> first_nonempty(<<Cmp(m, SCH, 1, 1), Cmp(m, SCH, 2, 1),
                                               Fld(m, SCH, 1), Fld(m, SCH, 2)>>),
     appointment_datetime |-> appt_datetime_iso,
     patient              |-> Patient(m, dob),
     provider             |-> Provider(m),
     location             |-> Location(m),
     reason               |-> Reason(m)]

\* to_iso8601_z(dt_obj) if dt_obj else ""
RenderOrEmpty(dt_obj) == IF dt_obj = None THEN Ok(<< >>) ELSE to_iso8601_z(dt_obj)

\* parse_siu_s12_appointment from line 59 on: dob is the outcome of
\* parse_hl7_date(dob_raw).
WithDob(m, appt_datetime_iso, dob) ==
    IF dob.kind = "raise" THEN dob ELSE Ok(Record(m, appt_datetime_iso, dob.value))

\* ... from line 45 on: isoz is the outcome of line 43.
WithIso(m, isoz) ==
    IF isoz.kind = "raise" THEN isoz
    ELSE WithDob(m, isoz.value, parse_hl7_date(DobRaw(m)))

\* ... from line 43 on: dt_obj is the outcome of parse_hl7_ts_to_datetime(dt_raw).
WithStart(m, dt_obj) ==
    IF dt_obj.kind = "raise" THEN dt_obj ELSE WithIso(m, RenderOrEmpty(dt_obj.value))

\* parse_siu_s12_appointment with the test for the SCH segment left out.
parse_siu_s12_appointment_no_sch_test(m) ==
    IF ~validate_siu_s12(m) THEN Raise("UnsupportedMessageType")
    ELSE WithStart(m, parse_hl7_ts_to_datetime(DtRaw(m)))

parse_siu_s12_appointment(m) ==
    IF ~validate_siu_s12(m) THEN Raise("UnsupportedMessageType")
    ELSE IF SCH \notin DOMAIN m.segments THEN Raise("MissingSegment")
    ELSE WithStart(m, parse_hl7_ts_to_datetime(DtRaw(m)))

-----------------------------------------------------------------------------
(* cli.py: the body of the try block of main, for one message text         *)

\* parse_siu_s12_appointment(msg), or what parse_message raised.
ExtractFrom(parsed) ==
    IF parsed.kind = "raise" THEN parsed ELSE parse_siu_s12_appointment(parsed.value)

ProcessOne(raw_msg) == ExtractFrom(parse_message(raw_msg))

-----------------------------------------------------------------------------
(* split_messages as a function, and the batch driver cli.main.  SplitSpec *)
(* runs split_messages on every text made of at most MaxLines lines of     *)
(* LinePool, under each line ending and with or without a leading          *)
(* byte-order mark.  Spec runs main with one, two and three arguments, on  *)
(* a missing input file and on an input file holding each of these texts.  *)

MaxLines == 3

\* "MSH|^~\&|||||||SIU^S12"
HdrSiu == <<"M", "S", "H", "|", "^", "~", "\\", "&", "|", "|", "|", "|", "|", "|", "|", "S", "I", "U", "^", "S", "1", "2">>

\* "MSH|^~\&|||||||ADT^A01"
HdrAdt == <<"M", "S", "H", "|", "^", "~", "\\", "&", "|", "|", "|", "|", "|", "|", "|", "A", "D", "T", "^", "A", "0", "1">>

\* "MSH": a header too short to hold its field separator
HdrShort == MSH

\* "SCH|7||||||||||20250502"
SchOk == <<"S", "C", "H", "|", "7", "|", "|", "|", "|", "|", "|", "|", "|", "|", "|", "2", "0", "2", "5", "0", "5", "0", "2">>

\* "SCH|7||||||||||20251301": SCH-11 has the shape of a date, and month 13
SchBadMonth == <<"S", "C", "H", "|", "7", "|", "|", "|", "|", "|", "|", "|", "|", "|", "|", "2", "0", "2", "5", "1", "3", "0", "1">>

\* " MSH": the header marker, not at the start of the line
Indented == <<" ", "M", "S", "H">>

\* " \xa0": a blank line, of a space and a no-break space
BlankLine == <<" ", "U+00A0">>

LinePool == {HdrSiu, HdrAdt, HdrShort, SchOk, SchBadMonth, Indented, BlankLine}

Eols == {<<CR>>, <<LF>>, <<CR, LF>>}

BomPrefixes == {<< >>, <<BOM>>}

\* The lines, each followed by the line ending eol.
Text(lines, eol) == Concat([k \in 1..Len(lines) |-> lines[k] \o eol])

RawInputs ==
    {bom \o Text(lines, eol) :
        bom \in BomPrefixes, eol \in Eols,
        lines \in UNION {[1..n -> LinePool] : n \in 0..MaxLines}}

SplitInit ==
    /\ pc = "call"
    /\ raw \in RawInputs
    /\ msgs = Idle
    /\ argv = Idle /\ file = Idle /\ raised = Idle
    /\ i = Idle /\ exit_code = Idle /\ emitted = Idle
    /\ message = Idle /\ msg = Idle /\ appt = Idle
    /\ args = Idle /\ ret = Idle /\ value = Idle /\ iso = Idle

\* msgs = split_messages(raw)
CallSplitMessages ==
    /\ pc = "call"
    /\ msgs' = split_messages(raw)
    /\ pc' = "returned"
    /\ UNCHANGED <<argv, file, raised, raw, i, exit_code, emitted, message, msg,
                   appt, args, ret, value, iso>>

SplitNext == CallSplitMessages

SplitSpec == SplitInit /\ [][SplitNext]_vars

\* sys.argv with no, one and two arguments after the program's name.
ArgvInputs ==
    {<<"prog">>, <<"prog", "input.hl7">>, <<"prog", "input.hl7", "extra">>}

\* The file argv[1] names: missing, or holding a text.
FileInputs ==
    {[exists |-> FALSE, text |-> << >>]}
    \cup {[exists |-> TRUE, text |-> t] : t \in RawInputs}

\* No exception has left main.
Unraised == "none"

\* f.read() of a file opened in text mode: "\r\n" and "\r" are read as "\n".
\* (The text is the file's bytes decoded as UTF-8, errors replaced.)
ReadText(t) == Replace(Replace(t, <<CR, LF>>, <<LF>>), <<CR>>, <<LF>>)

Init ==
    /\ pc = "start"
    /\ argv \in ArgvInputs
    /\ file \in FileInputs
    /\ raised = Unraised
    /\ raw = << >>
    /\ msgs = << >>
    /\ i = 0
    /\ exit_code = 0
    /\ emitted = << >>
    /\ message = Idle /\ msg = Idle /\ appt = Idle
    /\ args = Idle /\ ret = Idle /\ value = Idle /\ iso = Idle

unusedByMain == <<message, msg, appt, args, ret, value, iso>>

\* What main prints when it is not given exactly one argument.
UsageLine ==
    [stream |-> "stderr", text |-> "Usage: python -m hl7_siu_parser.cli input.hl7"]

\* main, lines 11-13: without exactly one argument, print the usage and
\* return 2.
Usage ==
    /\ pc = "start"
    /\ Len(argv) # 2
    /\ emitted' = <<UsageLine>>
    /\ exit_code' = 2
    /\ pc' = "done"
    /\ UNCHANGED <<argv, file, raised, raw, msgs, i, unusedByMain>>

\* main, lines 15-18: read the file; open raises FileNotFoundError, which
\* nothing catches, when there is no such file.
ReadFile ==
    /\ pc = "start"
    /\ Len(argv) = 2
    /\ IF file.exists
       THEN /\ raw' = ReadText(file.text)
            /\ pc' = "split"
            /\ UNCHANGED raised
       ELSE /\ raised' = "FileNotFoundError"
            /\ pc' = "crashed"
            /\ UNCHANGED raw
    /\ UNCHANGED <<argv, file, msgs, i, exit_code, emitted, unusedByMain>>

\* What main prints when split_messages returns no message.
NoMessages ==
    [stream |-> "stderr", text |-> "No HL7 messages found (no MSH segments)."]

\* main, lines 20-25: split the text; with no message, report it and return 1.
SplitInput ==
    /\ pc = "split"
    /\ msgs' = split_messages(raw)
    /\ emitted' = IF msgs' = << >> THEN <<NoMessages>> ELSE << >>
    /\ exit_code' = IF msgs' = << >> THEN 1 ELSE 0
    /\ pc' = IF msgs' = << >> THEN "done" ELSE "loop"
    /\ UNCHANGED <<argv, file, raised, raw, i, unusedByMain>>

\* What one turn of the loop prints for message k, whose try block ended in r.
Printed(k, r) ==
    IF r.kind = "ok"
    THEN [stream |-> "stdout", index |-> k, record |-> r.value]
    ELSE [stream |-> "stderr", message_index |-> k, error |-> r.exc]

\* main, lines 26-34: one turn of the loop.  A record goes to stdout; an
\* HL7Error is caught, sets exit_code and goes to stderr with the message's
\* 1-based index; any other exception leaves main through the loop.
ProcessMessage ==
    /\ pc = "loop"
    /\ i < Len(msgs)
    /\ \E r \in {ProcessOne(msgs[i + 1])} :
          IF r.kind = "ok" \/ r.exc \in HL7Error
          THEN /\ emitted' = Append(emitted, Printed(i + 1, r))
               /\ exit_code' = IF r.kind = "ok" THEN exit_code ELSE 1
               /\ i' = i + 1
               /\ pc' = "loop"
               /\ UNCHANGED raised
          ELSE /\ pc' = "crashed"
               /\ raised' = r.exc
               /\ UNCHANGED <<emitted, exit_code, i>>
    /\ UNCHANGED <<argv, file, raw, msgs, unusedByMain>>

\* main, line 36: return exit_code
Return ==
    /\ pc = "loop"
    /\ i = Len(msgs)
    /\ pc' = "done"
    /\ UNCHANGED <<argv, file, raised, raw, msgs, i, exit_code, emitted, unusedByMain>>

Next == Usage \/ ReadFile \/ SplitInput \/ ProcessMessage \/ Return

Spec == Init /\ [][Next]_vars

-----------------------------------------------------------------------------
(* The extractor on one message: parse_message(message), then              *)
(* parse_siu_s12_appointment on its result.  SiuSpec runs it on every      *)
(* message made of a header of HeaderPool and, each optional, an SCH line  *)
(* of SchPool, a PID line of PidPool and a PV1 line of Pv1Pool.            *)

\* A header line whose MSH-2 is enc and whose MSH-9 is type.
Hdr(enc, type) ==
    MSH \o <<"|">> \o enc \o <<"|", "|", "|", "|", "|", "|", "|">> \o type

\* The values of MSH-9 under the encoding characters "^~\&".
TypePool ==
    {<< >>,
     <<"S", "I", "U", "^", "S", "1", "2">>,
     <<"S", "I", "U", "^", "S", "1", "2", "^", "S", "I", "U", "_", "S", "1", "2">>,
     <<"S", "I", "U", "^", "S", "1", "2", "~", "A", "D", "T", "^", "A", "0", "1">>,
     <<"A", "D", "T", "^", "A", "0", "1">>,
     <<"S", "I", "U">>,
     <<"s", "i", "u", "^", "s", "1", "2">>,
     <<"S", "1", "2", "^", "S", "I", "U">>}

\* Under the encoding characters "^~\U", "\T\" decodes to "U".
HdrEscaped == Hdr(<<"^", "~", "\\", "U">>, <<"S", "I", "\\", "T", "\\", "^", "S", "1", "2">>)

HeaderPool == {Hdr(DefaultEnc, t) : t \in TypePool} \cup {HdrEscaped}

\* The values of SCH-11: absent; an instant; the instant as component 4; month
\* 13; an odd number of digits; an instant before year 1 in UTC; 30 February.
StartPool ==
    {<< >>,
     <<"2", "0", "2", "5", "0", "5", "0", "2", "1", "3", "0", "0", "0", "0", "+", "0", "6", "0", "0">>,
     <<"^", "^", "^", "2", "0", "2", "5", "0", "5", "0", "2", "1", "3", "0", "0", "0", "0", "+", "0", "6", "0", "0">>,
     <<"2", "0", "2", "5", "1", "3", "0", "1">>,
     <<"2", "0", "2", "5", "0", "5", "0">>,
     <<"0", "0", "0", "1", "0", "1", "0", "1", "0", "0", "0", "0", "0", "0", "+", "0", "1", "0", "0">>,
     <<"2", "0", "2", "5", "0", "2", "3", "0">>}

\* "SCH|7||||||||||" and SCH-11
SchLine(start) == <<"S", "C", "H", "|", "7", "|", "|", "|", "|", "|", "|", "|", "|", "|", "|">> \o start

\* The values of PID-7: absent; a date; 30 February; an odd number of digits.
DobPool ==
    {<< >>,
     <<"1", "9", "8", "5", "0", "2", "1", "0">>,
     <<"1", "9", "8", "5", "0", "2", "3", "0">>,
     <<"1", "9", "8", "5", "0", "2", "1">>}

\* "PID|1||P3||Doe^John||", PID-7 and "|M"
PidLine(dob) == <<"P", "I", "D", "|", "1", "|", "|", "P", "3", "|", "|", "D", "o", "e", "^", "J", "o", "h", "n", "|", "|">> \o dob \o <<"|", "M">>

\* What PV1-6 .. PV1-9 hold when they are not empty.  PV1-9 is not empty and
\* its first repetition is.
Pv1Values ==
    <<<<"D", "6", "^", "S", "m", "i", "t", "h", "^", "J", "a", "n", "e", "^", "^", "^", "D", "r">>,
      <<"D", "7", "^", "L", "e", "e">>,
      <<"D", "8", "^", "^", "A", "l">>,
      <<"~", "D", "9">>>>

\* "PV1|1|O|ClinicA^203^^Main|||" and PV1-6 .. PV1-9, the k-th present iff
\* present[k].
Pv1Line(present) ==
    <<"P", "V", "1", "|", "1", "|", "O", "|", "C", "l", "i", "n", "i", "c", "A", "^", "2", "0", "3", "^", "^", "M", "a", "i", "n", "|", "|", "|">>
    \o Join([k \in 1..4 |-> IF present[k] THEN Pv1Values[k] ELSE << >>], <<"|">>)

\* A pool of lines, or no line at all.
Optional(lines) == {<<l>> : l \in lines} \cup {<< >>}

SchPool == {SchLine(s) : s \in StartPool}
PidPool == {PidLine(d) : d \in DobPool}
Pv1Pool == {Pv1Line(p) : p \in [1..4 -> BOOLEAN]}

\* A header line too short to hold the encoding characters: parse_message
\* raises HL7ParseError on it.
HdrOnly == Text(<<MSH>>, <<CR>>)

MessageInputs ==
    {HdrOnly} \cup
    {Text(<<h>> \o sch \o pid \o pv1, <<CR>>) :
        h \in HeaderPool, sch \in Optional(SchPool),
        pid \in Optional(PidPool), pv1 \in Optional(Pv1Pool)}

SiuInit ==
    /\ pc = "parse"
    /\ message \in MessageInputs
    /\ msg = Idle
    /\ appt = Idle
    /\ argv = Idle /\ file = Idle /\ raised = Idle
    /\ raw = Idle /\ msgs = Idle /\ i = Idle /\ exit_code = Idle /\ emitted = Idle
    /\ args = Idle /\ ret = Idle /\ value = Idle /\ iso = Idle

unusedBySiu == <<argv, file, raised, raw, msgs, i, exit_code, emitted, args, ret, value, iso>>

\* msg = parse_message(raw_msg)
ParseMessage ==
    /\ pc = "parse"
    /\ msg' = parse_message(message)
    /\ pc' = IF msg'.kind = "ok" THEN "extract" ELSE "done"
    /\ UNCHANGED <<message, appt, unusedBySiu>>

\* appt = parse_siu_s12_appointment(msg)
Extract ==
    /\ pc = "extract"
    /\ appt' = parse_siu_s12_appointment(msg.value)
    /\ pc' = "done"
    /\ UNCHANGED <<message, msg, unusedBySiu>>

SiuNext == ParseMessage \/ Extract

SiuSpec == SiuInit /\ [][SiuNext]_vars

-----------------------------------------------------------------------------
(* The addressing engine: one call of get_field or get_component on a      *)
(* message with two PID segments and no PV1 segment.  AddrSpec runs every  *)
(* call whose field number is within MaxField of 0 and whose other indices *)
(* are within MaxIndex of 0, with each default of DefaultPool.             *)

MaxField == 5
MaxIndex == 3

\* "MSH|^~\&|", "PID|1||a^b~c" and "PID|2"
AddrMessage ==
    parse_message(Text(<<<<"M", "S", "H", "|", "^", "~", "\\", "&", "|">>, <<"P", "I", "D", "|", "1", "|", "|", "a", "^", "b", "~", "c">>, <<"P", "I", "D", "|", "2">>>>, <<CR>>))

\* "", "a^b" and "x~y"
DefaultPool == {<< >>, <<"a", "^", "b">>, <<"x", "~", "y">>}

ArgInputs ==
    [seg       : {PID, PV1},
     field_num : -MaxField..MaxField,
     seg_index : -MaxIndex..MaxIndex,
     comp_num  : 0..MaxIndex,
     rep_index : -MaxIndex..MaxIndex,
     default   : DefaultPool]

AddrInit ==
    /\ pc = "call"
    /\ msg = AddrMessage
    /\ args \in ArgInputs
    /\ ret = Idle
    /\ argv = Idle /\ file = Idle /\ raised = Idle
    /\ raw = Idle /\ msgs = Idle /\ i = Idle /\ exit_code = Idle /\ emitted = Idle
    /\ message = Idle /\ appt = Idle /\ value = Idle /\ iso = Idle

unusedByAddr == <<argv, file, raised, raw, msgs, i, exit_code, emitted, message, appt, value, iso>>

\* msg.get_field(seg, field_num, seg_index, default)
GetField ==
    /\ pc = "call"
    /\ ret' = get_field(msg.value, args.seg, args.field_num, args.seg_index, args.default)
    /\ pc' = "get_field"
    /\ UNCHANGED <<msg, args, unusedByAddr>>

\* msg.get_component(seg, field_num, comp_num, seg_index, rep_index, default)
GetComponent ==
    /\ pc = "call"
    /\ ret' = get_component(msg.value, args.seg, args.field_num, args.comp_num,
                            args.seg_index, args.rep_index, args.default)
    /\ pc' = "get_component"
    /\ UNCHANGED <<msg, args, unusedByAddr>>

AddrNext == GetField \/ GetComponent

AddrSpec == AddrInit /\ [][AddrNext]_vars

-----------------------------------------------------------------------------
(* The timestamp parser and renderer, as lines 42-43 of siu_s12.py use     *)
(* them: parse_hl7_ts_to_datetime(value), then to_iso8601_z on a datetime. *)
(* TsSpec runs them on the year, the first groups of month, day, hour,     *)
(* minute and second, an optional fraction and an optional offset, each    *)
(* from its pool.                                                          *)

\* 0001, 2023, 2024, 9999, and 2025 in fullwidth digits
YearPool ==
    {<<"0", "0", "0", "1">>, <<"2", "0", "2", "3">>, <<"2", "0", "2", "4">>,
     <<"9", "9", "9", "9">>, <<"U+FF12", "U+FF10", "U+FF12", "U+FF15">>}
MonthPool == {<<"0", "1">>, <<"0", "2">>, <<"0", "3">>, <<"1", "2">>}
DayPool == {<<"0", "1">>, <<"2", "8">>, <<"2", "9">>, <<"3", "1">>}
HourPool == {<<"0", "0">>, <<"1", "3">>, <<"2", "3">>}
MinutePool == {<<"0", "0">>, <<"5", "9">>}
SecondPool == {<<"0", "0">>, <<"5", "9">>}
FractionPool == {<< >>, <<".", "5">>}
\* no offset, +0000, +0600, -0530, +2359, -2359
OffsetPool == {<< >>, <<"+", "0", "0", "0", "0">>, <<"+", "0", "6", "0", "0">>, <<"-", "0", "5", "3", "0">>, <<"+", "2", "3", "5", "9">>, <<"-", "2", "3", "5", "9">>}

\* The first n of the five two-digit groups.
GroupInputs(n) ==
    {SubSeq(<<mm, dd, hh, mi, ss>>, 1, n) :
        mm \in MonthPool, dd \in DayPool, hh \in HourPool,
        mi \in MinutePool, ss \in SecondPool}

TsInputs ==
    {y \o Concat(g) \o f \o z :
        y \in YearPool, g \in UNION {GroupInputs(n) : n \in 0..5},
        f \in FractionPool, z \in OffsetPool}

TsInit ==
    /\ pc = "parse"
    /\ value \in TsInputs
    /\ ret = Idle
    /\ iso = Idle
    /\ argv = Idle /\ file = Idle /\ raised = Idle
    /\ raw = Idle /\ msgs = Idle /\ i = Idle /\ exit_code = Idle /\ emitted = Idle
    /\ message = Idle /\ msg = Idle /\ appt = Idle /\ args = Idle

unusedByTs == <<argv, file, raised, raw, msgs, i, exit_code, emitted, message, msg, appt, args>>

\* dt_obj = parse_hl7_ts_to_datetime(dt_raw)
ParseTimestamp ==
    /\ pc = "parse"
    /\ ret' = parse_hl7_ts_to_datetime(value)
    /\ pc' = IF ret'.kind = "ok" /\ ret'.value # None THEN "render" ELSE "done"
    /\ UNCHANGED <<value, iso, unusedByTs>>

\* to_iso8601_z(dt_obj)
Render ==
    /\ pc = "render"
    /\ iso' = to_iso8601_z(ret.value)
    /\ pc' = "done"
    /\ UNCHANGED <<value, ret, unusedByTs>>

TsNext == ParseTimestamp \/ Render

TsSpec == TsInit /\ [][TsNext]_vars

-----------------------------------------------------------------------------
(* Properties of split_messages, on SplitSpec, and of the batch driver, on  *)
(* Spec                                                                    *)

\* The positions of raw at which a segment line starts with "MSH": the
\* position is the first one, or follows an end of line, or follows nothing
\* but byte order marks.
HeaderStarts(text) ==
    {k \in 1..Len(text) - 2 :
        /\ SubSeq(text, k, k + 2) = MSH
        /\ \/ k = 1
           \/ text[k - 1] \in {CR, LF}
           \/ \A j \in 1..k - 1 : text[j] = BOM}

\* C1: split_messages returns as many message texts as the input has segment
\* lines that start with "MSH"; each text starts with "MSH" and its first line
\* is its only line that starts with "MSH"; with no such line in the input the
\* result is empty.
C1_OneMessagePerHeader ==
    pc = "returned" =>
        /\ Len(msgs) = Cardinality(HeaderStarts(raw))
        /\ \A k \in 1..Len(msgs) :
              StartsWith(msgs[k], MSH) /\ HeaderStarts(msgs[k]) = {1}
        /\ (HeaderStarts(raw) = {} => msgs = << >>)

\* Two messages, one of them of more than one line, from an input with a
\* blank line.
C1_Witness ==
    /\ pc = "returned"
    /\ Len(msgs) = 2
    /\ \E k \in 1..2 : Len(Split(msgs[k], CR)) > 2
    /\ Cardinality(HeaderStarts(raw)) = 2

\* The lines of lines from the first one that starts with "MSH".
RECURSIVE FromFirstHeader(_)
FromFirstHeader(lines) ==
    IF lines = << >> \/ StartsWith(Head(lines), MSH) THEN lines
    ELSE FromFirstHeader(Tail(lines))

\* The non-blank lines of the normalized input from the first header on, each
\* followed by one "\r".
KeptText(text) ==
    Text(FromFirstHeader(SegmentLines(normalize_newlines(text))), <<CR>>)

\* C10: the returned message texts, concatenated, are the non-blank segment
\* lines of the normalized input from the first line that starts with "MSH"
\* on, in their order, each followed by one "\r"; the lines before the first
\* header are in no message.
C10_LinesPreserved ==
    pc = "returned" => Concat(msgs) = KeptText(raw)

\* Messages from an input whose first non-blank line is no header and which
\* has a line after its last header.
C10_Witness ==
    /\ pc = "returned"
    /\ msgs # << >>
    /\ ~StartsWith(Head(SegmentLines(normalize_newlines(raw))), MSH)
    /\ Len(Split(msgs[Len(msgs)], CR)) > 2

\* C4: when split_messages returns K >= 1 messages, main processes all K in
\* order and emits one output per message, a record on success and an error
\* object with the message's 1-based index on failure; a failure of a message
\* does not keep the later ones from being processed; main returns non-zero
\* iff some message failed.
C4_EveryMessageProcessed ==
    (pc \in {"done", "crashed"} /\ Len(msgs) >= 1) =>
        /\ pc = "done"
        /\ Len(emitted) = Len(msgs)
        /\ \A k \in 1..Len(msgs) : emitted[k] = Printed(k, ProcessOne(msgs[k]))
        /\ exit_code # 0 <=> \E k \in 1..Len(msgs) : ProcessOne(msgs[k]).kind = "raise"

-----------------------------------------------------------------------------
(* Properties of parse_siu_s12_appointment, checked on SiuSpec             *)

\* parse_siu_s12_appointment has run on the parsed message.
Extracted == pc = "done" /\ msg.kind = "ok"

\* MSH-9 as the header line holds it.
TypeField == IF Len(msg.value.segments[MSH][1]) >= 10
             THEN msg.value.segments[MSH][1][10] ELSE << >>

\* The c-th component of the first repetition of a raw field, decoded.
DecodedComponent(field, c) ==
    LET comps == Split(Head(Split(field, msg.value.seps.repetition)),
                       msg.value.seps.component)
    IN  IF c <= Len(comps) THEN unescape_hl7(comps[c], msg.value.seps) ELSE << >>

\* The first two decoded components of the first repetition of MSH-9 are
\* "SIU" and "S12".
IsSiuS12 ==
    DecodedComponent(TypeField, 1) = SIU /\ DecodedComponent(TypeField, 2) = S12

\* MSH-9 is a composite of two components, "SIU" and "S12".
IsTwoComponentSiuS12 ==
    Split(TypeField, msg.value.seps.component) = <<SIU, S12>>

\* C2, as stated: UnsupportedMessageType is raised iff MSH-9 is not a composite
\* of exactly the two components "SIU" and "S12".
C2_AsStated ==
    Extracted => (appt = Raise("UnsupportedMessageType") <=> ~IsTwoComponentSiuS12)

\* C2: UnsupportedMessageType is raised iff, in the first repetition of MSH-9,
\* the decoded first component is not "SIU" or the decoded second component is
\* not "S12"; components after the second and repetitions after the first are
\* not looked at.  A message of another type gets this error whether or not
\* it has an SCH segment, never MissingSegment and never a record.
C2_UnsupportedIffNotSiuS12 ==
    Extracted => (appt = Raise("UnsupportedMessageType") <=> ~IsSiuS12)

\* A message of another type without SCH segment is rejected for its type.
C2_Witness ==
    /\ Extracted
    /\ ~IsSiuS12
    /\ TypeField # << >>
    /\ SCH \notin DOMAIN msg.value.segments
    /\ appt = Raise("UnsupportedMessageType")

\* C3: on a message of type SIU^S12 without SCH segment,
\* parse_siu_s12_appointment raises MissingSegment, whatever other segments
\* the message has.
C3_MissingSchRaises ==
    (Extracted /\ IsSiuS12 /\ SCH \notin DOMAIN msg.value.segments)
        => appt = Raise("MissingSegment")

\* A SIU^S12 message with PID and PV1 segments and without SCH segment.
C3_Witness ==
    /\ Extracted
    /\ IsSiuS12
    /\ SCH \notin DOMAIN msg.value.segments
    /\ {PID, PV1} \subseteq DOMAIN msg.value.segments
    /\ appt = Raise("MissingSegment")

\* s is a timestamp that parse_hl7_ts_to_datetime accepts.
ParseableTs(s) ==
    parse_hl7_ts_to_datetime(s).kind = "ok" /\ parse_hl7_ts_to_datetime(s).value # None

\* s is a date that parse_hl7_date accepts.
ParseableDate(s) ==
    parse_hl7_date(s).kind = "ok" /\ parse_hl7_date(s).value # None

\* C5: on a SIU^S12 message with an SCH segment parse_siu_s12_appointment
\* returns a record and raises nothing; appointment_datetime is empty when
\* the selected SCH-11 value is empty or no parseable timestamp, and
\* patient.dob is empty when PID-7 is absent or no parseable date.
C5_AlwaysARecord ==
    (Extracted /\ IsSiuS12 /\ SCH \in DOMAIN msg.value.segments) =>
        /\ appt.kind = "ok"
        /\ ~ParseableTs(DtRaw(msg.value)) => appt.value.appointment_datetime = << >>
        /\ ~ParseableDate(DobRaw(msg.value)) => appt.value.patient.dob = << >>

\* PV1-f as the first PV1 line holds it.
Pv1Raw(f) ==
    IF PV1 \in DOMAIN msg.value.segments /\ Len(msg.value.segments[PV1][1]) > f
    THEN msg.value.segments[PV1][1][f + 1] ELSE << >>

\* The field the provider comes from: the first non-empty one of PV1-7,
\* PV1-6, PV1-8 and PV1-9, or the empty field.
ProviderSource ==
    IF Pv1Raw(7) # << >> THEN Pv1Raw(7)
    ELSE IF Pv1Raw(6) # << >> THEN Pv1Raw(6)
    ELSE IF Pv1Raw(8) # << >> THEN Pv1Raw(8)
    ELSE Pv1Raw(9)

\* a and b, with one space between them if neither is empty.
Spaced(a, b) == IF a = << >> THEN b ELSE IF b = << >> THEN a ELSE a \o <<" ">> \o b

\* C9: in the record, provider.id is component 1 of the first non-empty field
\* among PV1-7, PV1-6, PV1-8 and PV1-9, and provider.name is its components 6,
\* 3 and 2 joined by single spaces, the empty ones left out; both are empty
\* when the four fields are empty or there is no PV1 segment.
C9_ProviderFromFirstNonEmpty ==
    (Extracted /\ appt.kind = "ok") =>
        appt.value.provider =
            [id   |-> DecodedComponent(ProviderSource, 1),
             name |-> Spaced(Spaced(DecodedComponent(ProviderSource, 6),
                                    DecodedComponent(ProviderSource, 3)),
                             DecodedComponent(ProviderSource, 2))]

\* PV1-7 is empty, PV1-6 and PV1-8 are not: the provider is the one of PV1-6,
\* "Dr Jane Smith".
C9_Witness ==
    /\ Extracted
    /\ appt.kind = "ok"
    /\ Pv1Raw(7) = << >> /\ Pv1Raw(6) # << >> /\ Pv1Raw(8) # << >>
    /\ appt.value.provider = [id |-> <<"D", "6">>, name |-> <<"D", "r", " ", "J", "a", "n", "e", " ", "S", "m", "i", "t", "h">>]

-----------------------------------------------------------------------------
(* Properties of get_field and get_component, checked on AddrSpec          *)

\* The occurrences of the addressed segment type.
Occurrences ==
    IF args.seg \in DOMAIN msg.value.segments THEN msg.value.segments[args.seg]
    ELSE << >>

\* The coordinates address an existing field of an existing occurrence, and
\* the field is not empty.
AddressesValue ==
    /\ args.seg_index \in 0..Len(Occurrences) - 1
    /\ args.field_num \in 0..Len(Occurrences[args.seg_index + 1]) - 1
    /\ Occurrences[args.seg_index + 1][args.field_num + 1] # << >>

\* C6: get_field never raises; it returns the default when the segment type
\* is absent, the occurrence index or the field number addresses nothing, or
\* the addressed field is empty, and the raw field at the coordinates
\* otherwise.
C6_GetFieldTotal ==
    pc = "get_field" =>
        ret = Ok(IF AddressesValue
                 THEN Occurrences[args.seg_index + 1][args.field_num + 1]
                 ELSE args.default)

\* C7: get_component returns the default, whole, whenever the field lookup
\* finds no value.
C7_DefaultReturnedWhole ==
    (pc = "get_component" /\ ~AddressesValue) => ret = Ok(args.default)

-----------------------------------------------------------------------------
(* Properties of the timestamp functions, checked on TsSpec                *)

\* The number written at positions from..to of s, or default if s is shorter.
NumberAt(s, from, to, default) ==
    IF Len(s) >= to THEN IntOf(SubSeq(s, from, to)) ELSE default

\* The digits value starts with.
WrittenDigits == SubSeq(value, 1, DigitRun(value))

\* The microseconds of the fraction written after the digits.
WrittenMicro ==
    IF Len(value) > Len(WrittenDigits) /\ value[Len(WrittenDigits) + 1] = "."
    THEN 100000 * DigitVal(value[Len(WrittenDigits) + 2])
    ELSE 0

\* The offset written at the end of value, in minutes; 0 if there is none.
WrittenOffset ==
    IF Len(value) >= 5 /\ value[Len(value) - 4] \in {"+", "-"}
    THEN (IF value[Len(value) - 4] = "-" THEN -1 ELSE 1)
         * (60 * IntOf(SubSeq(value, Len(value) - 3, Len(value) - 2))
            + IntOf(SubSeq(value, Len(value) - 1, Len(value))))
    ELSE 0

\* The minute of the written day, less the written offset.
WrittenMinute ==
    60 * NumberAt(WrittenDigits, 9, 10, 0) + NumberAt(WrittenDigits, 11, 12, 0)
    - WrittenOffset

\* The instant value denotes: the day (as an ordinal), the minute of the day,
\* the second and the microsecond, in UTC.
WrittenInstant ==
    <<Ordinal(NumberAt(WrittenDigits, 1, 4, 0), NumberAt(WrittenDigits, 5, 6, 1),
              NumberAt(WrittenDigits, 7, 8, 1)) + (WrittenMinute \div MinutesPerDay),
      WrittenMinute % MinutesPerDay,
      NumberAt(WrittenDigits, 13, 14, 0),
      WrittenMicro>>

\* The instant a rendered "YYYY-MM-DDTHH:MM:SS[.ffffff]Z" denotes.
RenderedInstant(s) ==
    <<Ordinal(IntOf(SubSeq(s, 1, 4)), IntOf(SubSeq(s, 6, 7)), IntOf(SubSeq(s, 9, 10))),
      60 * IntOf(SubSeq(s, 12, 13)) + IntOf(SubSeq(s, 15, 16)),
      IntOf(SubSeq(s, 18, 19)),
      IF s[20] = "." THEN IntOf(SubSeq(s, 21, 26)) ELSE 0>>

\* s has the shape "YYYY-MM-DDTHH:MM:SS[.ffffff]Z".
RenderedShape(s) ==
    /\ Len(s) \in {20, 27}
    /\ s[Len(s)] = "Z"
    /\ <<s[5], s[8], s[11], s[14], s[17]>> = <<"-", "-", "T", ":", ":">>
    /\ Len(s) = 27 => s[20] = "."

\* C8: for a timestamp of the grammar with valid calendar values,
\* to_iso8601_z(parse_hl7_ts_to_datetime(s)) is the written local date-time
\* less the written offset (no offset being UTC, a missing month or day being
\* 01, a missing hour, minute or second being 00), and ends in "Z".
C8_RendersTheInstant ==
    (pc = "done" /\ ret.kind = "ok" /\ ret.value # None) =>
        /\ iso.kind = "ok"
        /\ RenderedShape(iso.value)
        /\ RenderedInstant(iso.value) = WrittenInstant

=============================================================================
